---- MODULE Spec2Model ----
(***************************************************************************)
(* Decay-class enrichment tests and representative isoform selection of    *)
(* halflife/tissue_expression.py.                                          *)
(*                                                                         *)
(* Metric values (abundances, log-abundances, tissue counts) are modelled  *)
(* as integers; np.mean is modelled exactly as the rational sum/len and    *)
(* two means are compared by cross-multiplication.                         *)
(*                                                                         *)
(* The three test routines are run side by side over the same protein      *)
(* table and the same complexes: nvals, evals, success, trials and printed *)
(* hold one component per routine.                                         *)
(***************************************************************************)
EXTENDS Integers, Sequences, FiniteSets

(* ------------------------------ bounds -------------------------------- *)

\* metric values found in the input tables are 1..MaxVal
MaxVal == 3

\* subunit positions iterated per complex
MaxGroups == 3

\* complexes iterated per run
MaxComplexes == 2

\* lines of the NED data file
MaxRecords == 2

\* ENSP isoforms of one protein
MaxIsoforms == 2

\* the 'NA' of a tissue without a value (expression values are positive)
NA == -1

(* --------------------------- input domains ---------------------------- *)

Ids == {"A", "B", "C"}

Decays == {"NED", "ED", "other"}

Vals == 1..MaxVal

Routines == {"tcount_binomial_test", "abundance_binomial_test", "tissue_count2"}

\* Prot(abundance | tcount, decay) and the [tcount, decay] lists of
\* tcount_binomial_test: a metric value with a decay class
Prot(m, d) == [metric |-> m, decay |-> d]

ProtEntries == {Prot(m, d) : m \in Vals, d \in Decays}

\* dictionaries identifier -> Prot
Tables == UNION {[D -> ProtEntries] : D \in SUBSET Ids}

\* those that hold at most the proteins A and B (C is then in no table)
SmallIds == {"A", "B"}

SmallTables == {t \in Tables : DOMAIN t \subseteq SmallIds}

\* one position of core[struc].uniprot: a list of alternative identifiers,
\* here one or two distinct ones
Groups == {<<p>> : p \in Ids} \cup {g \in Ids \X Ids : g[1] # g[2]}

\* the same, with the positions of three alternatives
LongGroups ==
    Groups \cup {g \in Ids \X Ids \X Ids : g[1] # g[2] /\ g[1] # g[3] /\ g[2] # g[3]}

None == "None"

VARIABLES
    routine,    \* table construction: the routine that builds its table
    homologs,   \* table construction: the homologs argument
    data,       \* lines of the NED data file
    homs,       \* map_mouse_homologs()
    tcounts,    \* tissue counts read by tissue_count2
    prots,      \* the protein table (called data in tcount_binomial_test)
    pc,         \* position in the routine
    strucs,     \* core.strucs with each complex's core[struc].uniprot
    idx,        \* complexes iterated so far
    subIdx,     \* positions of the current complex iterated so far
    sub,        \* loop variable of "for sub in subunits" (SpecAggregate, SpecOrder)
    nvals,      \* per routine: NED values of the current complex
    evals,      \* per routine: ED values of the current complex
    success,    \* per routine
    trials,     \* per routine
    printed,    \* per routine: what the final print statement received
    ensps,      \* print_expression_data: isoform vectors of one line
    outrow      \* print_expression_data: the row written for that line

vars == <<routine, homologs, data, homs, tcounts, prots, pc, strucs, idx,
          subIdx, sub, nvals, evals, success, trials, printed, ensps, outrow>>

loadVars == <<routine, homologs, data, homs, tcounts, prots>>

isoVars == <<ensps, outrow>>

(* ------------------------------ np.mean ------------------------------- *)

RECURSIVE Sum(_)
Sum(xs) == IF xs = <<>> THEN 0 ELSE Head(xs) + Sum(Tail(xs))

\* np.mean(xs) as the exact fraction num/den
Mean(xs) == [num |-> Sum(xs), den |-> Len(xs)]

\* a >= b for two means with positive denominators
MeanGE(a, b) == a.num * b.den >= b.num * a.den

(* ----------------- tcount_binomial_test, lines 110-131 ---------------- *)

\* mutant: the scan goes on after a candidate has resolved (the breaks lost)
RECURSIVE ScanTcountNoBreak(_, _, _, _, _)
ScanTcountNoBreak(nv, ev, s, i, tbl) ==
    IF i > Len(s) THEN <<nv, ev>>
    ELSE IF s[i] \in DOMAIN tbl /\ tbl[s[i]].decay = "NED"
         THEN ScanTcountNoBreak(Append(nv, tbl[s[i]].metric), ev, s, i + 1, tbl)
    ELSE IF s[i] \in DOMAIN tbl /\ tbl[s[i]].decay = "ED"
         THEN ScanTcountNoBreak(nv, Append(ev, tbl[s[i]].metric), s, i + 1, tbl)
    ELSE ScanTcountNoBreak(nv, ev, s, i + 1, tbl)

RECURSIVE ScanTcount(_, _, _, _, _)
ScanTcount(nv, ev, s, i, tbl) ==
    IF i > Len(s) THEN <<nv, ev>>
    ELSE IF s[i] \in DOMAIN tbl /\ tbl[s[i]].decay = "NED"
         THEN <<Append(nv, tbl[s[i]].metric), ev>>
    ELSE IF s[i] \in DOMAIN tbl /\ tbl[s[i]].decay = "ED"
         THEN <<nv, Append(ev, tbl[s[i]].metric)>>
    ELSE ScanTcount(nv, ev, s, i + 1, tbl)

SubTcount(nv, ev, s, tbl) ==
    IF Len(s) = 1 /\ s[1] \in DOMAIN tbl
    THEN IF tbl[s[1]].decay = "NED"
         THEN <<Append(nv, tbl[s[1]].metric), ev>>
         ELSE IF tbl[s[1]].decay = "ED"
         THEN <<nv, Append(ev, tbl[s[1]].metric)>>
         ELSE <<nv, ev>>
    ELSE ScanTcount(nv, ev, s, 1, tbl)

\* mutant: "or" for "and" in the test for a trial
CountTcountEitherGroup(sc, tr, nv, ev) ==
    IF Len(ev) > 0 \/ Len(nv) > 0
    THEN <<IF MeanGE(Mean(nv), Mean(ev)) THEN sc + 1 ELSE sc, tr + 1>>
    ELSE <<sc, tr>>

CountTcount(sc, tr, nv, ev) ==
    IF Len(ev) > 0 /\ Len(nv) > 0
    THEN <<IF MeanGE(Mean(nv), Mean(ev)) THEN sc + 1 ELSE sc, tr + 1>>
    ELSE <<sc, tr>>

(* --------------- abundance_binomial_test, lines 146-168 --------------- *)

\* mutant: a NED candidate anywhere in the group is preferred to an ED
\* candidate before it
RECURSIVE ScanAbundanceOnly(_, _, _, _, _, _)
ScanAbundanceOnly(class, nv, ev, s, i, tbl) ==
    IF i > Len(s) THEN <<nv, ev>>
    ELSE IF s[i] \in DOMAIN tbl /\ tbl[s[i]].decay = class
         THEN IF class = "NED" THEN <<Append(nv, tbl[s[i]].metric), ev>>
              ELSE <<nv, Append(ev, tbl[s[i]].metric)>>
    ELSE ScanAbundanceOnly(class, nv, ev, s, i + 1, tbl)

ScanAbundanceNedFirst(nv, ev, s, i, tbl) ==
    IF ScanAbundanceOnly("NED", nv, ev, s, i, tbl) # <<nv, ev>>
    THEN ScanAbundanceOnly("NED", nv, ev, s, i, tbl)
    ELSE ScanAbundanceOnly("ED", nv, ev, s, i, tbl)

RECURSIVE ScanAbundance(_, _, _, _, _)
ScanAbundance(nv, ev, s, i, tbl) ==
    IF i > Len(s) THEN <<nv, ev>>
    ELSE IF s[i] \in DOMAIN tbl /\ tbl[s[i]].decay = "NED"
         THEN <<Append(nv, tbl[s[i]].metric), ev>>
    ELSE IF s[i] \in DOMAIN tbl /\ tbl[s[i]].decay = "ED"
         THEN <<nv, Append(ev, tbl[s[i]].metric)>>
    ELSE ScanAbundance(nv, ev, s, i + 1, tbl)

SubAbundance(nv, ev, s, tbl) ==
    IF Len(s) = 1 /\ s[1] \in DOMAIN tbl
    THEN IF tbl[s[1]].decay = "NED"
         THEN <<Append(nv, tbl[s[1]].metric), ev>>
         ELSE IF tbl[s[1]].decay = "ED"
         THEN <<nv, Append(ev, tbl[s[1]].metric)>>
         ELSE <<nv, ev>>
    ELSE ScanAbundance(nv, ev, s, 1, tbl)

\* mutant: success is counted outside the test for a trial
CountAbundanceUnguarded(sc, tr, nv, ev) ==
    <<IF MeanGE(Mean(nv), Mean(ev)) THEN sc + 1 ELSE sc,
      IF Len(ev) > 0 /\ Len(nv) > 0 THEN tr + 1 ELSE tr>>

CountAbundance(sc, tr, nv, ev) ==
    IF Len(ev) > 0 /\ Len(nv) > 0
    THEN <<IF MeanGE(Mean(nv), Mean(ev)) THEN sc + 1 ELSE sc, tr + 1>>
    ELSE <<sc, tr>>

(* --------------------- tissue_count2, lines 191-213 ------------------- *)

RECURSIVE ScanTissue(_, _, _, _, _)
ScanTissue(nv, ev, s, i, tbl) ==
    IF i > Len(s) THEN <<nv, ev>>
    ELSE IF s[i] \in DOMAIN tbl /\ tbl[s[i]].decay = "NED"
         THEN <<Append(nv, tbl[s[i]].metric), ev>>
    ELSE IF s[i] \in DOMAIN tbl /\ tbl[s[i]].decay = "ED"
         THEN <<nv, Append(ev, tbl[s[i]].metric)>>
    ELSE ScanTissue(nv, ev, s, i + 1, tbl)

\* mutant: only unambiguous positions are handled
SubTissueSingleOnly(nv, ev, s, tbl) ==
    IF Len(s) = 1 /\ s[1] \in DOMAIN tbl
    THEN IF tbl[s[1]].decay = "NED"
         THEN <<Append(nv, tbl[s[1]].metric), ev>>
         ELSE IF tbl[s[1]].decay = "ED"
         THEN <<nv, Append(ev, tbl[s[1]].metric)>>
         ELSE <<nv, ev>>
    ELSE <<nv, ev>>

SubTissue(nv, ev, s, tbl) ==
    IF Len(s) = 1 /\ s[1] \in DOMAIN tbl
    THEN IF tbl[s[1]].decay = "NED"
         THEN <<Append(nv, tbl[s[1]].metric), ev>>
         ELSE IF tbl[s[1]].decay = "ED"
         THEN <<nv, Append(ev, tbl[s[1]].metric)>>
         ELSE <<nv, ev>>
    ELSE ScanTissue(nv, ev, s, 1, tbl)

\* mutant: ">" for ">="
CountTissueStrict(sc, tr, nv, ev) ==
    IF Len(ev) > 0 /\ Len(nv) > 0
    THEN <<IF ~MeanGE(Mean(ev), Mean(nv)) THEN sc + 1 ELSE sc, tr + 1>>
    ELSE <<sc, tr>>

CountTissue(sc, tr, nv, ev) ==
    IF Len(ev) > 0 /\ Len(nv) > 0
    THEN <<IF MeanGE(Mean(nv), Mean(ev)) THEN sc + 1 ELSE sc, tr + 1>>
    ELSE <<sc, tr>>

(* -------------------- the routine that is running --------------------- *)

\* body of "for sub in subunits" of routine r
SubBody(r, nv, ev, s, tbl) ==
    CASE r = "tcount_binomial_test" -> SubTcount(nv, ev, s, tbl)
      [] r = "abundance_binomial_test" -> SubAbundance(nv, ev, s, tbl)
      [] r = "tissue_count2" -> SubTissue(nv, ev, s, tbl)

\* the counting that follows the inner loop in routine r
CountBody(r, sc, tr, nv, ev) ==
    CASE r = "tcount_binomial_test" -> CountTcount(sc, tr, nv, ev)
      [] r = "abundance_binomial_test" -> CountAbundance(sc, tr, nv, ev)
      [] r = "tissue_count2" -> CountTissue(sc, tr, nv, ev)

\* mutant: nvals is not emptied for the next complex
StaleNvals(r) == nvals[r]

\* nvals = [] and evals = [] at the head of the outer loop body of routine r
NewNvals(r) == <<>>

NewEvals(r) == <<>>

\* binom_test(success, trials) of scipy.stats, as the call that is made
BinomTest(x, n) == [call |-> "binom_test", x |-> x, n |-> n]

(* ------------------------------ the run ------------------------------- *)

PerRoutine(v) == [r \in Routines |-> v]

\* the state in which a routine enters its loop over complexes cs with table t
LoopEntry(t, cs) ==
    /\ routine = None
    /\ homologs = FALSE
    /\ data = <<>>
    /\ homs = <<>>
    /\ tcounts = <<>>
    /\ prots = t
    /\ pc = "for_struc"
    /\ strucs = cs
    /\ idx = 0
    /\ subIdx = 0
    /\ sub = <<>>
    /\ nvals = PerRoutine(<<>>)
    /\ evals = PerRoutine(<<>>)
    /\ success = PerRoutine(0)
    /\ trials = PerRoutine(0)
    /\ printed = PerRoutine(None)
    /\ ensps = <<>>
    /\ outrow = None

Init == \E t \in Tables : LoopEntry(t, <<>>)

\* "for struc in core.strucs": the next complex begins
StepStruc ==
    /\ nvals' = [r \in Routines |-> NewNvals(r)]
    /\ evals' = [r \in Routines |-> NewEvals(r)]
    /\ subIdx' = 0
    /\ pc' = "for_sub"
    /\ UNCHANGED <<loadVars, strucs, idx, sub, success, trials, printed, isoVars>>

\* "for sub in subunits": the next position of the complex is s
StepSub(s) ==
    /\ nvals' = [r \in Routines |-> SubBody(r, nvals[r], evals[r], s, prots)[1]]
    /\ evals' = [r \in Routines |-> SubBody(r, nvals[r], evals[r], s, prots)[2]]
    /\ subIdx' = subIdx + 1
    /\ UNCHANGED <<loadVars, pc, strucs, idx, success, trials, printed, isoVars>>

\* the same, with the loop variable kept in the state
StepSubSeen(s) == StepSub(s) /\ sub' = s

\* the positions are exhausted: "if len(evals) > 0 and len(nvals) > 0"
StepCount ==
    /\ success' = [r \in Routines |->
                     CountBody(r, success[r], trials[r], nvals[r], evals[r])[1]]
    /\ trials' = [r \in Routines |->
                     CountBody(r, success[r], trials[r], nvals[r], evals[r])[2]]
    /\ idx' = idx + 1
    /\ pc' = "for_struc"
    /\ UNCHANGED <<loadVars, strucs, subIdx, sub, nvals, evals, printed, isoVars>>

\* the complexes are exhausted: print(success, trials, binom_test(...))
StepReport ==
    /\ printed' = [r \in Routines |->
                     <<success[r], trials[r], BinomTest(success[r], trials[r])>>]
    /\ pc' = "done"
    /\ UNCHANGED <<loadVars, strucs, idx, subIdx, sub, nvals, evals,
                   success, trials, isoVars>>

\* The complexes and their positions are inputs: each loop takes whatever
\* element comes next, or finds its list exhausted.  No routine reads sub
\* after the step that binds it, and Spec leaves it out of the state.
BeginStruc == pc = "for_struc" /\ idx < MaxComplexes /\ StepStruc

NextSub ==
    /\ pc = "for_sub"
    /\ subIdx < MaxGroups
    /\ \E s \in Groups : StepSub(s) /\ UNCHANGED sub

EndStruc == pc = "for_sub" /\ StepCount

Report == pc = "for_struc" /\ StepReport

Next == BeginStruc \/ NextSub \/ EndStruc \/ Report

Spec == Init /\ [][Next]_vars

(* ------------------- the aggregation of one complex ------------------- *)

InitAggregate == \E t \in SmallTables : LoopEntry(t, <<>>)

BeginFirst == pc = "for_struc" /\ idx = 0 /\ StepStruc

SeeSub ==
    /\ pc = "for_sub"
    /\ subIdx < MaxGroups
    /\ \E s \in LongGroups : StepSubSeen(s)

NextAggregate == BeginFirst \/ SeeSub \/ EndStruc

SpecAggregate == InitAggregate /\ [][NextAggregate]_vars

(* ------------------- runs over a given list of complexes -------------- *)

\* complexes of at most two unambiguous positions over two proteins
OrderComplexes ==
    {<<>>} \cup {<<<<p>>>> : p \in SmallIds}
           \cup {<<<<p>>, <<q>>>> : p \in SmallIds, q \in SmallIds}

InitOrder ==
    \E t \in SmallTables :
      \E cs \in UNION {[1..n -> OrderComplexes] : n \in 0..MaxComplexes} :
        LoopEntry(t, cs)

BeginStrucOf == pc = "for_struc" /\ idx < Len(strucs) /\ StepStruc

NextSubOf ==
    /\ pc = "for_sub"
    /\ subIdx < Len(strucs[idx + 1])
    /\ StepSubSeen(strucs[idx + 1][subIdx + 1])

EndStrucOf == pc = "for_sub" /\ subIdx = Len(strucs[idx + 1]) /\ StepCount

ReportOf == pc = "for_struc" /\ idx = Len(strucs) /\ StepReport

NextOrder == BeginStrucOf \/ NextSubOf \/ EndStrucOf \/ ReportOf

SpecOrder == InitOrder /\ [][NextOrder]_vars

(* ------------------- construction of the protein table ---------------- *)

\* a line of a data file: line[-2], line[-4], line[-3] of the NED file;
\* line[0], line[-2], line[-1] of the tissue expression file
Line(i, v, d) == [id |-> i, value |-> v, decay |-> d]

\* identifiers, abundances and tissue counts found in the files
FileIds == {"A", "B"}

FileValues == {1, 2}

Lines == {Line(i, v, d) : i \in FileIds, v \in FileValues, d \in Decays}

\* dictionaries: partial functions from FileIds
DictsTo(S) == UNION {[D -> S] : D \in SUBSET FileIds}

\* d[k] = v
Put(d, k, v) == [x \in DOMAIN d \cup {k} |-> IF x = k THEN v ELSE d[x]]

\* the result of a dict comprehension: the dictionary, or the KeyError of a
\* subscript whose key is missing
Built(d) == [ok |-> TRUE, dict |-> d]

KeyError == [ok |-> FALSE, dict |-> <<>>]

\* np.log(float(x)) in units of ln 2; the abundances of the file are powers of 2
Log(x) == CHOOSE k \in 0..x : 2 ^ k = x

\* mutant: the test for a homolog is lost
InHomsAlways(line, hm) == TRUE

\* "if line[-2] in homs" of abundance_binomial_test
InHomsAbundance(line, hm) == line.id \in DOMAIN hm

\* "if line[-2] in homs and homs[line[-2]] in tcounts" of tissue_count2
InHomsTissue(line, hm, tc) ==
    IF line.id \in DOMAIN hm THEN hm[line.id] \in DOMAIN tc ELSE FALSE

\* data = {line[0]: [int(line[-2]), line[-1]] for line in data[1:]}
RECURSIVE DictTcount(_, _, _)
DictTcount(rows, i, d) ==
    IF i > Len(rows) THEN Built(d)
    ELSE DictTcount(rows, i + 1, Put(d, rows[i].id, Prot(rows[i].value, rows[i].decay)))

\* the two comprehensions of abundance_binomial_test
RECURSIVE DictAbundance(_, _, _, _, _)
DictAbundance(h, rows, hm, i, d) ==
    IF i > Len(rows) THEN Built(d)
    ELSE IF h
    THEN IF InHomsAbundance(rows[i], hm)
         THEN IF rows[i].id \in DOMAIN hm
              THEN DictAbundance(h, rows, hm, i + 1,
                       Put(d, hm[rows[i].id], Prot(Log(rows[i].value), rows[i].decay)))
              ELSE KeyError
         ELSE DictAbundance(h, rows, hm, i + 1, d)
    ELSE DictAbundance(h, rows, hm, i + 1,
             Put(d, rows[i].id, Prot(rows[i].value, rows[i].decay)))

\* the two comprehensions of tissue_count2
RECURSIVE DictTissue(_, _, _, _, _, _)
DictTissue(h, rows, hm, tc, i, d) ==
    IF i > Len(rows) THEN Built(d)
    ELSE IF h
    THEN IF InHomsTissue(rows[i], hm, tc)
         THEN IF rows[i].id \in DOMAIN hm /\ hm[rows[i].id] \in DOMAIN tc
              THEN DictTissue(h, rows, hm, tc, i + 1,
                       Put(d, hm[rows[i].id], Prot(tc[hm[rows[i].id]], rows[i].decay)))
              ELSE KeyError
         ELSE DictTissue(h, rows, hm, tc, i + 1, d)
    ELSE IF rows[i].id \in DOMAIN tc
         THEN DictTissue(h, rows, hm, tc, i + 1,
                  Put(d, rows[i].id, Prot(tc[rows[i].id], rows[i].decay)))
         ELSE DictTissue(h, rows, hm, tc, i + 1, d)

\* the table routine r builds; tcount_binomial_test drops the header line
BuildTable(r, h, rows, hm, tc) ==
    CASE r = "tcount_binomial_test" -> DictTcount(rows, 2, <<>>)
      [] r = "abundance_binomial_test" -> DictAbundance(h, rows, hm, 1, <<>>)
      [] r = "tissue_count2" -> DictTissue(h, rows, hm, tc, 1, <<>>)

InitLoad ==
    /\ routine \in Routines
    /\ homologs \in (IF routine = "tcount_binomial_test" THEN {FALSE} ELSE BOOLEAN)
    /\ data \in UNION {[1..n -> Lines] : n \in 0..MaxRecords}
    /\ homs \in (IF homologs THEN DictsTo(FileIds) ELSE {<<>>})
    /\ tcounts \in (IF routine = "tissue_count2" THEN DictsTo(FileValues) ELSE {<<>>})
    /\ prots = <<>>
    /\ pc = "load"
    /\ strucs = <<>>
    /\ idx = 0
    /\ subIdx = 0
    /\ sub = <<>>
    /\ nvals = PerRoutine(<<>>)
    /\ evals = PerRoutine(<<>>)
    /\ success = PerRoutine(0)
    /\ trials = PerRoutine(0)
    /\ printed = PerRoutine(None)
    /\ ensps = <<>>
    /\ outrow = None

\* the routine up to "success, trials = 0, 0"
Load ==
    /\ pc = "load"
    /\ LET b == BuildTable(routine, homologs, data, homs, tcounts)
       IN  /\ prots' = b.dict
           /\ pc' = IF b.ok THEN "for_struc" ELSE "KeyError"
    /\ UNCHANGED <<routine, homologs, data, homs, tcounts, strucs, idx, subIdx,
                   sub, nvals, evals, success, trials, printed, isoVars>>

NextLoad == Load

SpecLoad == InitLoad /\ [][NextLoad]_vars

(* ------------------ print_expression_data, lines 54-70 ---------------- *)

\* the tissues: the files of the metadata
Tissues == <<"BRAIN", "HEART", "LIVER">>

\* expression values of an isoform in a tissue
Expressions == {1, 2}

Vectors == [1..Len(Tissues) -> Expressions \cup {NA}]

\* x.count('NA')
CountNA(x) == Cardinality({i \in 1..Len(x) : x[i] = NA})

IsPresent(v) == v # NA

\* np.mean([p for p in x if p != 'NA'])
MeanPresent(x) == Mean(SelectSeq(x, IsPresent))

\* mutant: the mean is not negated in the key
SkeyLessAscending(a, b) ==
    \/ CountNA(a) < CountNA(b)
    \/ /\ CountNA(a) = CountNA(b)
       /\ MeanPresent(a).num * MeanPresent(b).den
            < MeanPresent(b).num * MeanPresent(a).den

\* skey(a) < skey(b) for skey = (x.count('NA'), -np.mean(...))
SkeyLess(a, b) ==
    \/ CountNA(a) < CountNA(b)
    \/ /\ CountNA(a) = CountNA(b)
       /\ MeanPresent(a).num * MeanPresent(b).den
            > MeanPresent(b).num * MeanPresent(a).den

\* list.sort(key=skey), which is stable: x goes before the first element
\* its key is less than
RECURSIVE Insert(_, _)
Insert(x, sorted) ==
    IF sorted = <<>> THEN <<x>>
    ELSE IF SkeyLess(x, Head(sorted)) THEN <<x>> \o sorted
    ELSE <<Head(sorted)>> \o Insert(x, Tail(sorted))

RECURSIVE SortBySkey(_)
SortBySkey(xs) ==
    IF xs = <<>> THEN <<>>
    ELSE Insert(xs[Len(xs)], SortBySkey(SubSeq(xs, 1, Len(xs) - 1)))

NotAllNA(x) == CountNA(x) # Len(x)

InitIso ==
    /\ routine = None
    /\ homologs = FALSE
    /\ data = <<>>
    /\ homs = <<>>
    /\ tcounts = <<>>
    /\ prots = <<>>
    /\ pc = "line"
    /\ strucs = <<>>
    /\ idx = 0
    /\ subIdx = 0
    /\ sub = <<>>
    /\ nvals = PerRoutine(<<>>)
    /\ evals = PerRoutine(<<>>)
    /\ success = PerRoutine(0)
    /\ trials = PerRoutine(0)
    /\ printed = PerRoutine(None)
    /\ ensps \in UNION {[1..n -> Vectors] : n \in 1..MaxIsoforms}
    /\ outrow = [written |-> FALSE]

\* the loop body for a line whose protein is in pmap, from the isoform
\* vectors of line 58 to the row written, or to "continue"
WriteLine ==
    /\ pc = "line"
    /\ LET kept == SelectSeq(ensps, NotAllNA)
           best == SortBySkey(kept)[1]
       IN  outrow' =
             IF Len(kept) = 0 THEN [written |-> FALSE]
             ELSE [written |-> TRUE, expression |-> best,
                   tcount |-> Len(best) - CountNA(best)]
    /\ pc' = "next_line"
    /\ UNCHANGED <<loadVars, strucs, idx, subIdx, sub, nvals, evals, success,
                   trials, printed, ensps>>

NextIso == WriteLine

SpecIso == InitIso /\ [][NextIso]_vars

(* ---------------------- properties of the run ------------------------- *)

\* candidate p is present in the table with decay class NED or ED
Classified(tbl, p) == p \in DOMAIN tbl /\ tbl[p].decay \in {"NED", "ED"}

\* positions of the candidates of group g that are present and classified
Hits(tbl, g) == {i \in 1..Len(g) : Classified(tbl, g[i])}

\* the first of them, in the group's order
FirstHit(tbl, g) == CHOOSE i \in Hits(tbl, g) : \A j \in Hits(tbl, g) : i <= j

\* a step of the inner loop / the step that ends a complex
IsSubStep == pc = "for_sub" /\ subIdx' = subIdx + 1

IsCountStep == pc = "for_sub" /\ pc' = "for_struc"

\* C1: in each routine, a step of the inner loop over group sub' appends the
\* value of the first candidate, in the group's order, that is present in
\* the table with class NED or ED, to nvals (NED) or evals (ED); candidates
\* after it are not considered, absent or unclassified candidates are passed
\* over, and nothing is appended when no candidate is present and classified.
C1_FirstClassifiedWins ==
    [][IsSubStep =>
         \A r \in Routines :
           IF Hits(prots, sub') = {}
           THEN nvals'[r] = nvals[r] /\ evals'[r] = evals[r]
           ELSE LET e == prots[sub'[FirstHit(prots, sub')]]
                IN  /\ e.decay = "NED" =>
                          /\ nvals'[r] = Append(nvals[r], e.metric)
                          /\ evals'[r] = evals[r]
                    /\ e.decay = "ED" =>
                          /\ evals'[r] = Append(evals[r], e.metric)
                          /\ nvals'[r] = nvals[r]
      ]_vars

\* [A, B] with A = ED and B = NED was resolved to A's ED value
C1_Witness ==
    /\ pc = "for_sub" /\ subIdx = 1 /\ sub = <<"A", "B">>
    /\ DOMAIN prots = {"A", "B"}
    /\ prots["A"] = Prot(2, "ED") /\ prots["B"] = Prot(1, "NED")
    /\ \A r \in Routines : evals[r] = <<2>> /\ nvals[r] = <<>>

\* C2: a complex whose NED and ED groups are both non-empty raises trials by
\* exactly 1 and success by 0 or 1; a complex with an empty group changes
\* neither; no other step changes the counters.
C2_TrialPerComplex ==
    [][\A r \in Routines :
         /\ IsCountStep =>
              IF nvals[r] # <<>> /\ evals[r] # <<>>
              THEN /\ trials'[r] = trials[r] + 1
                   /\ success'[r] - success[r] \in {0, 1}
              ELSE trials'[r] = trials[r] /\ success'[r] = success[r]
         /\ ~IsCountStep => trials'[r] = trials[r] /\ success'[r] = success[r]
      ]_vars

\* two complexes are through: one was a trial, the last one was skipped
C2_Witness ==
    /\ pc = "for_struc" /\ idx = 2
    /\ \A r \in Routines :
         /\ trials[r] = 1
         /\ (nvals[r] = <<>> \/ evals[r] = <<>>)
         /\ nvals[r] \o evals[r] # <<>>

\* C3: for a complex that is a trial, success is incremented if and only if
\* mean(nvals) >= mean(evals); equal means are a success, a strictly lower
\* NED mean is not.
C3_SuccessIffMeanGE ==
    [][IsCountStep =>
         \A r \in Routines :
           nvals[r] # <<>> /\ evals[r] # <<>> =>
             /\ success'[r] \in {success[r], success[r] + 1}
             /\ success'[r] = success[r] + 1
                  <=> Sum(nvals[r]) * Len(evals[r])
                        >= Sum(evals[r]) * Len(nvals[r])
      ]_vars

\* NED values 1 and 3 against the ED value 2: equal means, a success
C3_Witness ==
    /\ pc = "for_struc" /\ idx = 1
    /\ \A r \in Routines :
         /\ trials[r] = 1 /\ success[r] = 1
         /\ Len(nvals[r]) = 2 /\ Len(evals[r]) = 1
         /\ nvals[r][1] # nvals[r][2]
         /\ Sum(nvals[r]) = 2 * Sum(evals[r])

\* C4: a run that ends with trials = 0 reports an undefined test and does
\* not invoke binom_test.
C4_UndefinedTestReported ==
    \A r \in Routines :
      pc = "done" /\ trials[r] = 0 =>
        printed[r][3].call = "UndefinedTest" /\ printed[r][3].call # "binom_test"

\* the counters a run over the complexes cs ends with when every complex is
\* aggregated from two empty lists
RECURSIVE AggregateFrom(_, _, _, _, _, _)
AggregateFrom(r, tbl, c, i, nv, ev) ==
    IF i > Len(c) THEN <<nv, ev>>
    ELSE LET a == SubBody(r, nv, ev, c[i], tbl)
         IN  AggregateFrom(r, tbl, c, i + 1, a[1], a[2])

RECURSIVE CountsFrom(_, _, _, _, _, _)
CountsFrom(r, tbl, cs, i, sc, tr) ==
    IF i > Len(cs) THEN <<sc, tr>>
    ELSE LET a == AggregateFrom(r, tbl, cs[i], 1, <<>>, <<>>)
             c == CountBody(r, sc, tr, a[1], a[2])
         IN  CountsFrom(r, tbl, cs, i + 1, c[1], c[2])

Orders(n) == {f \in [1..n -> 1..n] : \A i \in 1..n : \E j \in 1..n : f[j] = i}

\* C7: the counters a run ends with are those of a run over the same
\* complexes in any other order, each complex aggregated afresh.
C7_OrderIndependent ==
    pc = "done" =>
      \A r \in Routines :
        \A f \in Orders(Len(strucs)) :
          CountsFrom(r, prots, [i \in 1..Len(strucs) |-> strucs[f[i]]], 1, 0, 0)
            = <<success[r], trials[r]>>

\* a NED-only complex was followed by an ED-only one: no trial
C7_Witness ==
    /\ pc = "done"
    /\ strucs = <<<<<<"A">>>>, <<<<"B">>>>>>
    /\ DOMAIN prots = {"A", "B"}
    /\ prots["A"].decay = "NED" /\ prots["B"].decay = "ED"
    /\ \A r \in Routines : trials[r] = 0

\* C8: every position of a complex adds one value if it resolves and none
\* otherwise, to exactly one of nvals and evals; the values collected never
\* outnumber the positions processed; both lists start empty for a complex.
C8_OneValuePerGroup ==
    [][\A r \in Routines :
         /\ IsSubStep =>
              /\ Len(nvals'[r]) + Len(evals'[r])
                   = Len(nvals[r]) + Len(evals[r])
                       + (IF Hits(prots, sub') = {} THEN 0 ELSE 1)
              /\ Len(nvals'[r]) >= Len(nvals[r])
              /\ Len(evals'[r]) >= Len(evals[r])
         /\ pc' \in {"for_sub", "for_struc"} =>
              Len(nvals'[r]) + Len(evals'[r]) <= subIdx'
         /\ pc = "for_struc" /\ pc' = "for_sub" =>
              nvals'[r] = <<>> /\ evals'[r] = <<>>
      ]_vars

\* the same protein resolved in two positions and contributed twice
C8_Witness ==
    /\ pc = "for_sub" /\ subIdx = 2 /\ sub = <<"A">>
    /\ DOMAIN prots = {"A"} /\ prots["A"] = Prot(2, "NED")
    /\ \A r \in Routines : nvals[r] = <<2, 2>> /\ evals[r] = <<>>

\* C9: 0 <= success <= trials <= complexes processed, before and after
\* every step, and neither counter decreases.
CountersInRange ==
    \A r \in Routines :
      0 <= success[r] /\ success[r] <= trials[r] /\ trials[r] <= idx

C9_CounterBounds ==
    [][/\ CountersInRange
       /\ CountersInRange'
       /\ \A r \in Routines :
            success'[r] >= success[r] /\ trials'[r] >= trials[r]
      ]_vars

\* both complexes were trials and one of them a success
C9_Witness ==
    /\ pc = "done" /\ idx = 2
    /\ \A r \in Routines : trials[r] = 2 /\ success[r] = 1

\* C10: over the same table and the same complexes the three routines hold
\* the same NED and ED values and the same counters at every point, and
\* print the same (success, trials).
C10_SameCounts ==
    \A r1 \in Routines, r2 \in Routines :
      /\ nvals[r1] = nvals[r2] /\ evals[r1] = evals[r2]
      /\ success[r1] = success[r2] /\ trials[r1] = trials[r2]
      /\ pc = "done" => printed[r1][1] = printed[r2][1]
                        /\ printed[r1][2] = printed[r2][2]

\* a run of all three ended with a trial that was no success
C10_Witness ==
    /\ pc = "done" /\ idx = 1
    /\ \A r \in Routines : printed[r][1] = 0 /\ printed[r][2] = 1

(* ------------------ properties of the table construction -------------- *)

\* line i of the data has a homolog
HasHomolog(i) == data[i].id \in DOMAIN homs

\* table entry k was made from line i
MadeFrom(k, i) ==
    /\ HasHomolog(i) /\ homs[data[i].id] = k
    /\ prots[k].decay = data[i].decay
    /\ routine = "abundance_binomial_test" => prots[k].metric = Log(data[i].value)
    /\ routine = "tissue_count2" => k \in DOMAIN tcounts /\ prots[k].metric = tcounts[k]

HomologRun == pc # "load" /\ homologs

\* C6 as stated: with homologs no run ends in an error, every table entry is
\* made from a line that has a homolog and stands under the translated
\* identifier, and every line that has a homolog is entered under it.
C6_AsStated ==
    HomologRun =>
      /\ pc = "for_struc"
      /\ \A k \in DOMAIN prots : \E i \in 1..Len(data) : MadeFrom(k, i)
      /\ \A i \in 1..Len(data) : HasHomolog(i) => homs[data[i].id] \in DOMAIN prots

\* C6, amended: in tissue_count2 a line that has a homolog is entered only
\* if the translated identifier has a tissue count, and is left out otherwise.
C6_UnmappedSkipped ==
    HomologRun =>
      /\ pc = "for_struc"
      /\ \A k \in DOMAIN prots : \E i \in 1..Len(data) : MadeFrom(k, i)
      /\ \A i \in 1..Len(data) :
           HasHomolog(i) =>
             (homs[data[i].id] \in DOMAIN prots
                <=> (routine = "tissue_count2" => homs[data[i].id] \in DOMAIN tcounts))

\* a line without a homolog was skipped, one with a homolog was entered
\* under the translated identifier
C6_Witness ==
    /\ pc = "for_struc" /\ homologs /\ routine = "abundance_binomial_test"
    /\ Len(data) = 2 /\ data[1].id = "A" /\ data[2].id = "B"
    /\ DOMAIN homs = {"B"} /\ homs["B"] = "A"
    /\ DOMAIN prots = {"A"} /\ prots["A"] = Prot(Log(data[2].value), data[2].decay)

(* ------------------- properties of the isoform selection --------------- *)

\* the isoforms that are not all missing
Remaining == {i \in 1..Len(ensps) : \E t \in 1..Len(Tissues) : ensps[i][t] # NA}

SumPresent(x) == Sum([t \in 1..Len(x) |-> IF x[t] = NA THEN 0 ELSE x[t]])

Missing(x) == Len(SelectSeq(x, LAMBDA v : v = NA))

\* mean of the present values of x >= that of y
MeanPresentGE(x, y) ==
    SumPresent(x) * (Len(y) - Missing(y)) >= SumPresent(y) * (Len(x) - Missing(x))

\* C5: no row is written when every vector is all missing; otherwise the row
\* holds a remaining vector with the fewest missing entries and, among
\* those, the greatest mean of present values.
C5_RepresentativeIsoform ==
    pc = "next_line" =>
      IF Remaining = {}
      THEN ~outrow.written
      ELSE /\ outrow.written
           /\ \E i \in Remaining :
                /\ outrow.expression = ensps[i]
                /\ \A j \in Remaining :
                     /\ Missing(ensps[i]) <= Missing(ensps[j])
                     /\ Missing(ensps[i]) = Missing(ensps[j])
                          => MeanPresentGE(ensps[i], ensps[j])

\* [1, NA, 1] and [2, 2, NA]: one missing each, the greater mean was written
C5_Witness ==
    /\ pc = "next_line"
    /\ ensps = <<<<1, NA, 1>>, <<2, 2, NA>>>>
    /\ outrow.written /\ outrow.expression = <<2, 2, NA>>

====
